---- MODULE Spec2Model ----
(***************************************************************************)
(* Subtitle cue segmentation and timing engine of automate-ytshorts        *)
(* (src/src/video_pipeline/video_pipeline.py): the format detection of     *)
(* SubtitleParserFactory, the character-level parser                       *)
(* ElevenLabsSubtitleParser.parse and the segment-level parser             *)
(* WhisperSubtitleParser.parse with its splitter _subdivide_segment; the   *)
(* second parser family of src/src/subtitle_processing/parsers.py; and the *)
(* batch loop of VideoManager (src/src/video_pipeline/video_manager.py).   *)
(*                                                                         *)
(* Time is exact: one unit is 0.01 s, and a cue's start and end are        *)
(* rationals <<numerator, denominator>> in lowest terms, so the 30 % gap   *)
(* closing and the proportional split are computed without rounding (the   *)
(* program computes them in binary floating point).                        *)
(* Text is a sequence of one-character strings.                            *)
(***************************************************************************)
EXTENDS Integers, Sequences, FiniteSets, TLC

(***************************************************************************)
(* Bounds of the model.                                                    *)
(***************************************************************************)
\* longest freely chosen character-level payload
MaxLen == 3
\* freely chosen samples that follow a run of letters
MaxRunTail == 1
\* a long run of letters has up to max_segment_chars + MaxOver characters
MaxOver == 1
\* length of the run of letters that lets a chunk last longer than 1.5 s
PauseRun == 4
\* longest freely chosen text of a segment
MaxTextLen == 4
\* longest text of a segment that has a following segment
MaxPairTextLen == 2
\* max_chars of _subdivide_segment ranges over 1..MaxMaxChars and its default
MaxMaxChars == 3
\* a limit whose 70 % and 80 % windows differ, for texts one character longer
MidMaxChars == 5
\* longest character-level payload that is also split over two blocks
MaxBlockLen == 2
\* number of stories in the store of the video manager
NumStories == 3
\* input rows of process_csv
MaxRows == 3
\* the parameter retries of get_posts
MaxRetries == 2
\* posts of a well-formed page
PagePosts == 2
\* calls of execute on one VideoPipeline
MaxExecutes == 2
\* with statements one VideoPipeline goes into
MaxEnters == 2

(***************************************************************************)
(* Constants of the program, in units of 0.01 s.                           *)
(***************************************************************************)
max_segment_chars == 60
PerCharBuffer == 10
WordGapThreshold == 150
PauseThreshold == 50
base_buffer == 80
word_based_buffer == 100
MaxBuffer == 350
base_min_duration == 80
word_based_min == 100
MaxMinDuration == 350
final_base_buffer == 24
final_word_based_buffer == 60
FinalMaxBuffer == 300
final_base_min_duration == 24
final_word_based_min == 60
FinalMaxMinDuration == 300
DefaultMaxChars == 50
ChunkGap == 10
\* end_time = times[-1] + 0.1 of parsers.py
PEndBuffer == 10

VARIABLES
    data,              \* the payload json.load returns
    raised,            \* the exception that left the program, or "none"
    format,            \* detect_format's result: "elevenlabs" or "whisper"
    pc,                \* position in create_parser and parse
    char_timings,      \* list(zip(all_characters, all_start_times))
    i,                 \* number of samples the for loop has consumed
    current_text,      \* pending buffer of characters
    segment_start,     \* start time of the pending chunk
    last_char_end,     \* start time of the last consumed character + 0.1
    subtitle_entries,  \* the cue list being built
    flushed_final,     \* whether the end-of-stream flush emitted a cue
    chunk_runs,        \* history: current_text at each flush, untrimmed
    segments,          \* data['segments'] of a segment-level payload
    seg_idx,           \* number of segments the for loop has consumed
    max_chars,         \* max_chars of _subdivide_segment
    text,              \* the stripped text _subdivide_segment is splitting
    chunks,            \* the sub-chunk texts found so far
    current_pos,       \* position of the chunking loop in text
    iterations,        \* history: iterations of the chunking loop so far
    parser,            \* the parser parsers.py's create_parser returned
    p_entries,         \* the cue list parsers.py's parse returns
    stories,           \* the stories table: status and error of each story
    batch,             \* the stories process_ready_stories fetched
    story_idx,         \* number of stories the batch loop has consumed
    vm_pc,             \* position in process_ready_stories
    vm_caught,         \* what the loop caught from create_video_for_story
    retry_id,          \* story_id of retry_failed_video, 0 if it is not called
    rows,              \* process_csv: what the API call of each input row does
    out_rows,          \* the rows written to the output CSV
    processed_count,   \* processed_count of process_csv
    csv_pc,            \* position in process_csv
    retries,           \* get_posts: its parameter retries
    tries,             \* tries of get_posts
    success,           \* success of get_posts
    posts,             \* number of entries of the dict posts
    quit_count,        \* history: number of calls of driver.quit
    attempts,          \* history: the iterations of the while loop so far
    rc_pc,             \* position in get_posts
    vp_pc,             \* VideoPipeline: outside or inside its with-block
    initialized,       \* _cleanup_status['initialized']
    cleaned,           \* _cleanup_status['cleaned']
    active_clips,      \* _active_clips: the clip under each clip id, or 0
    next_clip,         \* number of clips the components have made so far
    block_exc,         \* the exception the body of the with-block raised
    propagated,        \* the exception that left the with statement
    enters_left,       \* with statements the instance will still go into
    vp_service,        \* whether a VideoService holds the instance
    registered,        \* history: the clips _register_clip was given
    close_called,      \* history: the clips whose close() was called
    closed             \* history: the clips whose close() returned

elvars == <<char_timings, i, current_text, segment_start, last_char_end,
            flushed_final, chunk_runs>>
wvars == <<segments, seg_idx, max_chars, text, chunks, current_pos,
           iterations>>
pvars == <<parser, p_entries>>
vmvars == <<stories, batch, story_idx, vm_pc, vm_caught, retry_id>>
csvvars == <<rows, out_rows, processed_count, csv_pc>>
parsevars == <<data, raised, format, pc, subtitle_entries, elvars, wvars,
               pvars>>
rcvars == <<retries, tries, success, posts, quit_count, attempts, rc_pc>>
vpvars == <<vp_pc, initialized, cleaned, active_clips, next_clip, block_exc,
            propagated, enters_left, vp_service, registered, close_called,
            closed>>
sidevars == <<vmvars, csvvars, rcvars, vpvars>>
vars == <<parsevars, sidevars>>

(***************************************************************************)
(* Arithmetic.                                                             *)
(***************************************************************************)
Min2(a, b) == IF a < b THEN a ELSE b
Max2(a, b) == IF a > b THEN a ELSE b
Abs(a) == IF a < 0 THEN 0 - a ELSE a

RECURSIVE GCD(_, _)
GCD(a, b) == IF b = 0 THEN a ELSE GCD(b, a % b)

\* the rational n/d (d > 0) in lowest terms
Rat(n, d) == LET g == GCD(Abs(n), d) IN <<n \div g, d \div g>>
RInt(n) == <<n, 1>>
RAdd(a, b) == Rat(a[1] * b[2] + b[1] * a[2], a[2] * b[2])
RSub(a, b) == Rat(a[1] * b[2] - b[1] * a[2], a[2] * b[2])
RLt(a, b) == a[1] * b[2] < b[1] * a[2]
RLe(a, b) == a[1] * b[2] <= b[1] * a[2]

(***************************************************************************)
(* str.strip(), len(str.split()).                                          *)
(***************************************************************************)
RECURSIVE LStrip(_)
LStrip(s) == IF s # <<>> /\ Head(s) = " " THEN LStrip(Tail(s)) ELSE s

RECURSIVE RStrip(_)
RStrip(s) ==
    IF s # <<>> /\ s[Len(s)] = " " THEN RStrip(SubSeq(s, 1, Len(s) - 1)) ELSE s

Strip(s) == RStrip(LStrip(s))

\* len(text.split()): the number of maximal runs of non-blank characters
WordCount(s) ==
    Cardinality({k \in 1..Len(s) : s[k] # " " /\ (k = 1 \/ s[k - 1] = " ")})

Ellipsis == <<".", ".", ".">>

(***************************************************************************)
(* The cue ((start, end), text).                                           *)
(***************************************************************************)
Cue(start, end, txt) == [start |-> start, end |-> end, text |-> txt]

(***************************************************************************)
(* ElevenLabsSubtitleParser.parse: the Duration Allocator.                 *)
(***************************************************************************)
WordClampSwapped(base, per_word, word_count, cap) ==
    Min2(Min2(base, per_word * word_count), cap)

\* min(max(base, per_word * word_count), cap)
WordClamp(base, per_word, word_count, cap) ==
    Min2(Max2(base, per_word * word_count), cap)

Buffer(word_count) ==
    WordClamp(base_buffer, word_based_buffer, word_count, MaxBuffer)

MinDuration(word_count) ==
    WordClamp(base_min_duration, word_based_min, word_count, MaxMinDuration)

FinalBuffer(word_count) ==
    WordClamp(final_base_buffer, final_word_based_buffer, word_count,
              FinalMaxBuffer)

FinalMinDuration(word_count) ==
    WordClamp(final_base_min_duration, final_word_based_min, word_count,
              FinalMaxMinDuration)

\* end_time = last_char_end + buffer, stretched to segment_start + min_duration
EndTime(seg_start, char_end, buffer, min_duration) ==
    LET end_time == char_end + buffer
    IN  IF end_time - seg_start < min_duration
        THEN seg_start + min_duration
        ELSE end_time

\* the text of a chunk flushed by a break condition
BreakText(chars) ==
    IF Len(chars) >= max_segment_chars
    THEN Strip(chars) \o Ellipsis
    ELSE Strip(chars)

\* the cue of a chunk flushed by a break condition
BreakCue(chars, seg_start, char_end) ==
    LET txt == BreakText(chars)
        word_count == WordCount(txt)
    IN  Cue(RInt(seg_start),
            RInt(EndTime(seg_start, char_end, Buffer(word_count),
                         MinDuration(word_count))),
            txt)

\* the cue of the chunk flushed at the end of the stream
FinalCue(chars, seg_start, char_end) ==
    LET txt == Strip(chars)
        word_count == WordCount(txt)
    IN  Cue(RInt(seg_start),
            RInt(EndTime(seg_start, char_end, FinalBuffer(word_count),
                         FinalMinDuration(word_count))),
            txt)

(***************************************************************************)
(* ElevenLabsSubtitleParser.parse: the Segment Builder's break conditions  *)
(* at sample k (1-based), the pending buffer chars already holding it.     *)
(***************************************************************************)
BreakPunctuation == {".", "!", "?", ","}

BreakConditionsNoComma(timings, k, chars, seg_start) ==
    LET char == timings[k][1]
        start_time == timings[k][2]
    IN  \/ char \in {".", "!", "?"}
        \/ char = " " /\ (start_time - seg_start) > WordGapThreshold
        \/ Len(chars) >= max_segment_chars
        \/ k < Len(timings) /\ timings[k + 1][2] - start_time > PauseThreshold

BreakConditions(timings, k, chars, seg_start) ==
    LET char == timings[k][1]
        start_time == timings[k][2]
    IN  \/ char \in BreakPunctuation
        \/ char = " " /\ (start_time - seg_start) > WordGapThreshold
        \/ Len(chars) >= max_segment_chars
        \/ k < Len(timings) /\ timings[k + 1][2] - start_time > PauseThreshold

(***************************************************************************)
(* ElevenLabsSubtitleParser.parse: the Transition Smoother.  Pass j reads  *)
(* the end of cue j, already final, and the start of cue j + 1, which no   *)
(* pass changes, so the passes are independent.                            *)
(***************************************************************************)
\* the 30 % step taken whether or not there is a gap
SmoothOneAlways(current, next) ==
    LET gap == RSub(next.start, current.end)
        overlap == Rat(gap[1] * 3, gap[2] * 10)
    IN  Cue(current.start, RAdd(current.end, overlap), current.text)

SmoothOne(current, next) ==
    IF RLt(current.end, next.start)
    THEN LET gap == RSub(next.start, current.end)
             overlap == Rat(gap[1] * 3, gap[2] * 10)
         IN  Cue(current.start, RAdd(current.end, overlap), current.text)
    ELSE current

Smooth(entries) ==
    [j \in 1..Len(entries) |->
        IF j < Len(entries) THEN SmoothOne(entries[j], entries[j + 1])
        ELSE entries[j]]

(***************************************************************************)
(* Character-level payloads, flattened: <<character, start time>> samples. *)
(***************************************************************************)
Alphabet == {"a", " ", ".", ",", "!", "?"}
Deltas == {0 - 50, 0, 50, 120}
RunDeltas == {0, 50}

LastTime(p) == IF p = <<>> THEN 0 ELSE p[Len(p)][2]

\* p followed by one more sample
Extend(P) ==
    {Append(p, <<c, IF p = <<>> THEN 0 ELSE LastTime(p) + d>>) :
        p \in P, c \in Alphabet, d \in Deltas}

RECURSIVE PayloadsFrom(_, _)
PayloadsFrom(P, n) == IF n = 0 THEN P ELSE P \cup PayloadsFrom(Extend(P), n - 1)

Run(n, d) == [k \in 1..n |-> <<"a", (k - 1) * d>>]

RunLens == {PauseRun} \cup ((max_segment_chars - 1)..(max_segment_chars + MaxOver))

ShortPayloads == PayloadsFrom({<<>>}, MaxLen)
RunPayloads ==
    PayloadsFrom({Run(n, d) : n \in RunLens, d \in RunDeltas}, MaxRunTail)

\* characters ['H', 'i', '!'] with start times [0.0, 0.2, 0.4]
ScenarioA == <<<<"H", 0>>, <<"i", 20>>, <<"!", 40>>>>

\* the start times never go back
Monotone(timings) ==
    \A k \in 1..(Len(timings) - 1) : timings[k][2] <= timings[k + 1][2]

(***************************************************************************)
(* Payloads as json.load returns them: a list of blocks, or a dict.  keys  *)
(* is the set of keys a dict or a block holds; segments_type is the type   *)
(* of the dict's 'segments' value and items its elements.                  *)
(***************************************************************************)
BlockKeys == {"characters", "character_start_times_seconds"}

Block(chars, times, keys) ==
    [characters |-> chars, character_start_times_seconds |-> times,
     keys |-> keys]

\* the block that holds exactly the samples of p
BlockOf(p) ==
    Block([k \in 1..Len(p) |-> p[k][1]], [k \in 1..Len(p) |-> p[k][2]],
          BlockKeys)

ListPayload(items) ==
    [type |-> "list", keys |-> {}, segments_type |-> "none", items |-> items]

DictPayload(keys, segments_type, items) ==
    [type |-> "dict", keys |-> keys, segments_type |-> segments_type,
     items |-> items]

OneBlockPayloads ==
    {<<BlockOf(p)>> : p \in ShortPayloads \cup RunPayloads \cup {ScenarioA}}

TwoBlockPayloads ==
    UNION {{<<BlockOf(SubSeq(p, 1, c)), BlockOf(SubSeq(p, c + 1, Len(p)))>> :
                c \in 0..Len(p)} : p \in PayloadsFrom({<<>>}, MaxBlockLen)}

\* arrays of different lengths, or a missing key
BadBlocks ==
    {Block(<<"a", "a">>, <<0>>, BlockKeys),
     Block(<<"a">>, <<0, 10>>, BlockKeys),
     Block(<<"a">>, <<0>>, {"characters"}),
     Block(<<>>, <<>>, {})}

GoodBlocks == {BlockOf(p) : p \in PayloadsFrom({<<>>}, 1)}

BadBlockPayloads ==
    {<<b>> : b \in BadBlocks}
    \cup {<<g, b>> : g \in GoodBlocks, b \in BadBlocks}
    \cup {<<b, g>> : g \in GoodBlocks, b \in BadBlocks}

ELPayloads ==
    {ListPayload(items) :
        items \in OneBlockPayloads \cup TwoBlockPayloads
                      \cup BadBlockPayloads \cup {<<>>}}

\* {}, {"foo": "bar"}, {"segments": null}
OddPayloads ==
    {DictPayload({}, "none", <<>>), DictPayload({"foo"}, "none", <<>>),
     DictPayload({"segments"}, "null", <<>>)}

(***************************************************************************)
(* SubtitleParserFactory.detect_format: its result, or "ValueError".       *)
(***************************************************************************)
detect_format(d) ==
    IF /\ d.type = "dict" /\ "segments" \in d.keys
       /\ d.segments_type = "list"
       /\ d.items # <<>> /\ d.items[1].has_keys
    THEN "whisper"
    ELSE IF /\ d.type = "list" /\ d.items # <<>>
            /\ BlockKeys \subseteq d.items[1].keys
    THEN "elevenlabs"
    ELSE "ValueError"

(***************************************************************************)
(* ElevenLabsSubtitleParser.parse: validation and flattening of the blocks.*)
(***************************************************************************)
\* the block passes both checks of the validation loop
BlockValid(b) ==
    /\ BlockKeys \subseteq b.keys
    /\ Len(b.characters) = Len(b.character_start_times_seconds)

RECURSIVE all_characters_reversed(_)
all_characters_reversed(blocks) ==
    IF blocks = <<>> THEN <<>>
    ELSE all_characters_reversed(Tail(blocks)) \o Head(blocks).characters

RECURSIVE all_characters(_)
all_characters(blocks) ==
    IF blocks = <<>> THEN <<>>
    ELSE Head(blocks).characters \o all_characters(Tail(blocks))

RECURSIVE all_start_times(_)
all_start_times(blocks) ==
    IF blocks = <<>> THEN <<>>
    ELSE Head(blocks).character_start_times_seconds
             \o all_start_times(Tail(blocks))

\* list(zip(cs, ts))
Zip(cs, ts) == [k \in 1..Min2(Len(cs), Len(ts)) |-> <<cs[k], ts[k]>>]

(***************************************************************************)
(* ElevenLabsSubtitleParser.parse as a state machine.                      *)
(***************************************************************************)
\* no payload has been read yet
ParseIdle ==
    /\ raised = "none"
    /\ format = "none"
    /\ char_timings = <<>>
    /\ i = 0
    /\ current_text = <<>>
    /\ segment_start = 0
    /\ last_char_end = 0
    /\ subtitle_entries = <<>>
    /\ flushed_final = FALSE
    /\ chunk_runs = <<>>
    /\ segments = <<>>
    /\ seg_idx = 0
    /\ text = <<>>
    /\ chunks = <<>>
    /\ current_pos = 0
    /\ iterations = 0
    /\ parser = "none"
    /\ p_entries = <<>>

InitEL ==
    /\ ParseIdle
    /\ pc = "create_parser"
    /\ data \in ELPayloads
    /\ max_chars = DefaultMaxChars

\* SubtitleParserFactory.create_parser: detect_format, then the parser class
CreateParser ==
    /\ pc = "create_parser"
    /\ LET format_type == detect_format(data)
       IN  IF format_type = "ValueError"
           THEN /\ raised' = "ValueError"
                /\ pc' = "error"
                /\ UNCHANGED format
           ELSE /\ format' = format_type
                /\ pc' = IF format_type = "whisper" THEN "w_open"
                         ELSE "normalize"
                /\ UNCHANGED raised
    /\ UNCHANGED <<data, subtitle_entries, elvars, wvars, pvars, sidevars>>

\* the validation loop over subtitle_data_list, then list(zip(...))
ELNormalize ==
    /\ format = "elevenlabs" /\ pc = "normalize"
    /\ IF \A k \in 1..Len(data.items) : BlockValid(data.items[k])
       THEN /\ char_timings' = Zip(all_characters(data.items),
                                   all_start_times(data.items))
            /\ pc' = "start"
            /\ UNCHANGED raised
       ELSE /\ raised' = "ValueError"
            /\ pc' = "error"
            /\ UNCHANGED char_timings
    /\ UNCHANGED <<data, format, i, current_text, segment_start,
                   last_char_end, subtitle_entries, flushed_final, chunk_runs,
                   wvars, pvars, sidevars>>

\* segment_start = char_timings[0][1]: an IndexError on an empty stream
ELStart ==
    /\ format = "elevenlabs" /\ pc = "start"
    /\ \/ /\ char_timings = <<>>
          /\ raised' = "IndexError"
          /\ pc' = "error"
          /\ UNCHANGED <<segment_start, last_char_end>>
       \/ /\ char_timings # <<>>
          /\ segment_start' = char_timings[1][2]
          /\ last_char_end' = char_timings[1][2]
          /\ pc' = "loop"
          /\ UNCHANGED raised
    /\ UNCHANGED <<data, format, char_timings, i, current_text,
                   subtitle_entries, flushed_final, chunk_runs, wvars, pvars,
                   sidevars>>

\* one iteration of the for loop over char_timings
ELStep ==
    /\ format = "elevenlabs" /\ pc = "loop"
    /\ i < Len(char_timings)
    /\ LET k == i + 1
           chars == Append(current_text, char_timings[k][1])
           char_end == char_timings[k][2] + PerCharBuffer
       IN  /\ i' = k
           /\ last_char_end' = char_end
           /\ IF BreakConditions(char_timings, k, chars, segment_start)
              THEN /\ subtitle_entries' =
                        Append(subtitle_entries,
                               BreakCue(chars, segment_start, char_end))
                   /\ chunk_runs' = Append(chunk_runs, chars)
                   /\ current_text' = <<>>
                   /\ segment_start' =
                        IF k < Len(char_timings) THEN char_timings[k + 1][2]
                        ELSE segment_start
              ELSE /\ current_text' = chars
                   /\ UNCHANGED <<subtitle_entries, segment_start, chunk_runs>>
    /\ UNCHANGED <<data, raised, format, pc, char_timings, flushed_final,
                   wvars, pvars, sidevars>>

\* after the loop: if current_text, flush it as the final chunk
ELFinal ==
    /\ format = "elevenlabs" /\ pc = "loop"
    /\ i = Len(char_timings)
    /\ IF current_text # <<>>
       THEN /\ subtitle_entries' =
                 Append(subtitle_entries,
                        FinalCue(current_text, segment_start, last_char_end))
            /\ flushed_final' = TRUE
            /\ chunk_runs' = Append(chunk_runs, current_text)
       ELSE UNCHANGED <<subtitle_entries, flushed_final, chunk_runs>>
    /\ pc' = "smooth"
    /\ UNCHANGED <<data, raised, format, char_timings, i, current_text,
                   segment_start, last_char_end, wvars, pvars, sidevars>>

\* the smoothing loop, then return subtitle_entries
ELSmooth ==
    /\ format = "elevenlabs" /\ pc = "smooth"
    /\ subtitle_entries' = Smooth(subtitle_entries)
    /\ pc' = "done"
    /\ UNCHANGED <<data, raised, format, elvars, wvars, pvars, sidevars>>

(***************************************************************************)
(* WhisperSubtitleParser._subdivide_segment: find_best_split_point.        *)
(* Positions are 1-based: txt[k] is the program's text[k - 1].             *)
(***************************************************************************)
strong_breaks == {".", "!", "?"}
\* the program's set also holds the em dash, which no payload here contains
medium_breaks == {";", ":", "--"}
weak_breaks == {",", ")", "]", "}", "\""}

\* the largest k in lo..hi with txt[k] in the set, or 0
LastIn(txt, lo, hi, set) ==
    LET hits == {k \in lo..hi : txt[k] \in set}
    IN  IF hits = {} THEN 0 ELSE CHOOSE k \in hits : \A m \in hits : m <= k

\* find in place of rfind: the first space, not the last
LastSpaceFirst(txt, max_length) ==
    LET hits == {k \in 1..Min2(max_length, Len(txt)) : txt[k] = " "}
    IN  IF hits = {} THEN 0 - 1
        ELSE (CHOOSE k \in hits : \A m \in hits : k <= m) - 1

\* text[:max_length].rfind(' '), as a 0-based index, or -1
LastSpace(txt, max_length) == LastIn(txt, 1, max_length, {" "}) - 1

\* the strong-break scan started one position too far
find_best_split_point_off_by_one(txt, max_length) ==
    LET min_length_for_medium == (max_length * 7) \div 10
        min_length_for_weak == (max_length * 8) \div 10
        strong == LastIn(txt, 1, Min2(max_length + 1, Len(txt)), strong_breaks)
        medium == LastIn(txt, min_length_for_medium + 1, max_length,
                         medium_breaks)
        weak == LastIn(txt, min_length_for_weak + 1, max_length, weak_breaks)
        last_space == LastSpace(txt, max_length)
    IN  IF Len(txt) <= max_length THEN Len(txt)
        ELSE IF strong > 0 THEN strong
        ELSE IF medium > 0 THEN medium
        ELSE IF weak > 0 THEN weak
        ELSE IF last_space > 0 THEN last_space
        ELSE max_length

\* the weak breaks searched in the window of the medium breaks
find_best_split_point_one_window(txt, max_length) ==
    LET min_length_for_medium == (max_length * 7) \div 10
        strong == LastIn(txt, 1, max_length, strong_breaks)
        medium == LastIn(txt, min_length_for_medium + 1, max_length,
                         medium_breaks)
        weak == LastIn(txt, min_length_for_medium + 1, max_length, weak_breaks)
        last_space == LastSpace(txt, max_length)
    IN  IF Len(txt) <= max_length THEN Len(txt)
        ELSE IF strong > 0 THEN strong
        ELSE IF medium > 0 THEN medium
        ELSE IF weak > 0 THEN weak
        ELSE IF last_space > 0 THEN last_space
        ELSE max_length

\* a space at index 0 taken as a split point too
find_best_split_point_any_space(txt, max_length) ==
    LET min_length_for_medium == (max_length * 7) \div 10
        min_length_for_weak == (max_length * 8) \div 10
        strong == LastIn(txt, 1, max_length, strong_breaks)
        medium == LastIn(txt, min_length_for_medium + 1, max_length,
                         medium_breaks)
        weak == LastIn(txt, min_length_for_weak + 1, max_length, weak_breaks)
        last_space == LastSpace(txt, max_length)
    IN  IF Len(txt) <= max_length THEN Len(txt)
        ELSE IF strong > 0 THEN strong
        ELSE IF medium > 0 THEN medium
        ELSE IF weak > 0 THEN weak
        ELSE IF last_space >= 0 THEN last_space
        ELSE max_length

find_best_split_point(txt, max_length) ==
    \* int(max_length * 0.7) is the floor of 7 * max_length / 10 for every
    \* max_length below 90, int(max_length * 0.8) that of 8 * max_length / 10
    LET min_length_for_medium == (max_length * 7) \div 10
        min_length_for_weak == (max_length * 8) \div 10
        strong == LastIn(txt, 1, max_length, strong_breaks)
        medium == LastIn(txt, min_length_for_medium + 1, max_length,
                         medium_breaks)
        weak == LastIn(txt, min_length_for_weak + 1, max_length, weak_breaks)
        last_space == LastSpace(txt, max_length)
    IN  IF Len(txt) <= max_length THEN Len(txt)
        ELSE IF strong > 0 THEN strong
        ELSE IF medium > 0 THEN medium
        ELSE IF weak > 0 THEN weak
        ELSE IF last_space > 0 THEN last_space
        ELSE max_length

(***************************************************************************)
(* WhisperSubtitleParser._subdivide_segment: the timing loop over chunks.  *)
(***************************************************************************)
RECURSIVE SumLen(_)
SumLen(cs) == IF cs = <<>> THEN 0 ELSE Len(Head(cs)) + SumLen(Tail(cs))

\* the medium breaks weighted like ordinary characters
ChunkWeightNoMedium(chunk) ==
    IF chunk[Len(chunk)] \in strong_breaks THEN 12 ELSE 10

\* chunk_weight in tenths
ChunkWeight(chunk) ==
    IF chunk[Len(chunk)] \in strong_breaks THEN 12
    ELSE IF chunk[Len(chunk)] \in medium_breaks THEN 11
    ELSE 10

\* current_time = chunk_end + 0.1
NextTimeNoGap(chunk_end) == chunk_end
NextTime(chunk_end) == RAdd(chunk_end, RInt(ChunkGap))

\* the loop without the cut of this_duration to end_time - current_time
RECURSIVE TimeChunksUncut(_, _, _, _, _, _)
TimeChunksUncut(cs, k, current_time, start_time, end_time, result) ==
    IF k > Len(cs) THEN result
    ELSE
        LET total_duration == end_time - start_time
            total_chars == SumLen(cs)
            this_duration ==
                Rat(total_duration * Len(cs[k]) * ChunkWeight(cs[k]),
                    total_chars * 10)
            full_end == RAdd(current_time, this_duration)
            chunk_end ==
                IF k < Len(cs) THEN RSub(full_end, RInt(ChunkGap))
                ELSE full_end
        IN  TimeChunksUncut(cs, k + 1, NextTime(chunk_end), start_time,
                            end_time,
                            Append(result,
                                   Cue(current_time, chunk_end, cs[k])))

\* iterations k..num_chunks of the loop, appended to result
RECURSIVE TimeChunks(_, _, _, _, _, _)
TimeChunks(cs, k, current_time, start_time, end_time, result) ==
    IF k > Len(cs) THEN result
    ELSE
        LET total_duration == end_time - start_time
            total_chars == SumLen(cs)
            weighted == Rat(total_duration * Len(cs[k]) * ChunkWeight(cs[k]),
                            total_chars * 10)
            this_duration ==
                IF RLt(RInt(end_time), RAdd(current_time, weighted))
                THEN RSub(RInt(end_time), current_time)
                ELSE weighted
            full_end == RAdd(current_time, this_duration)
            chunk_end ==
                IF k < Len(cs) THEN RSub(full_end, RInt(ChunkGap))
                ELSE full_end
        IN  TimeChunks(cs, k + 1, NextTime(chunk_end), start_time, end_time,
                       Append(result, Cue(current_time, chunk_end, cs[k])))

(***************************************************************************)
(* Segment-level payloads.  A segment that lacks one of the keys start,    *)
(* end, text has has_keys = FALSE.                                         *)
(***************************************************************************)
WAlphabet == {"a", " ", ".", ";", ","}
Durations == {0, 10, 100}
FollowGaps == {0 - 20, 0, 20}
FollowTexts == {<<"a">>, <<" ">>, <<"a", "a">>}

RECURSIVE TextsUpTo(_)
TextsUpTo(n) ==
    IF n = 0 THEN {<<>>}
    ELSE LET shorter == TextsUpTo(n - 1)
         IN  shorter \cup {Append(t, c) : t \in shorter, c \in WAlphabet}

Segment(start, end, txt, has_keys) ==
    [start |-> start, end |-> end, text |-> txt, has_keys |-> has_keys]

FirstSegments(n) ==
    {Segment(0, d, t, TRUE) : d \in Durations, t \in TextsUpTo(n)}

Followers(s) ==
    {Segment(s.end + g, s.end + g + d, t, TRUE) :
        g \in FollowGaps, d \in Durations \ {0}, t \in FollowTexts}
    \cup {Segment(s.end, s.end + 10, <<"a">>, FALSE)}

WhisperPayloads ==
    {<<s>> : s \in FirstSegments(MaxTextLen)}
    \cup UNION {{<<s, f>> : f \in Followers(s)} :
                    s \in FirstSegments(MaxPairTextLen)}
    \cup {<<>>, <<Segment(0, 10, <<"a">>, FALSE)>>}

\* the texts one character longer than the limit MidMaxChars
RECURSIVE TextsOfLen(_)
TextsOfLen(n) ==
    IF n = 0 THEN {<<>>}
    ELSE {Append(t, c) : t \in TextsOfLen(n - 1), c \in WAlphabet}

MidPayloads ==
    {<<Segment(0, 100, t, TRUE)>> : t \in TextsOfLen(MidMaxChars + 1)}

\* scenario C: one segment from 0 to 10 s whose text is 70 characters with
\* no punctuation, letters with up to two spaces inside, split at 40
ScenarioCLen == 70
ScenarioCMaxChars == 40
ScenarioCEnd == 1000

ScenarioCText(spaces) ==
    [k \in 1..ScenarioCLen |-> IF k \in spaces THEN " " ELSE "a"]

ScenarioCTexts ==
    {ScenarioCText({})}
    \cup {ScenarioCText({k, m}) : k, m \in 2..(ScenarioCLen - 1)}

ScenarioCPayloads ==
    {<<Segment(0, ScenarioCEnd, t, TRUE)>> : t \in ScenarioCTexts}

\* every segment ends after it starts
SegmentsPositive(segs) == \A k \in 1..Len(segs) : segs[k].start < segs[k].end

\* the segments are in temporal order and do not overlap
SegmentsOrdered(segs) ==
    /\ \A k \in 1..Len(segs) : segs[k].start <= segs[k].end
    /\ \A k \in 1..(Len(segs) - 1) : segs[k].end <= segs[k + 1].start

(***************************************************************************)
(* WhisperSubtitleParser.parse as a state machine.                         *)
(***************************************************************************)
InitW ==
    /\ ParseIdle
    /\ pc = "create_parser"
    /\ \/ /\ data \in {DictPayload({"segments"}, "list", s) :
                            s \in WhisperPayloads}
          /\ max_chars \in (1..MaxMaxChars) \cup {DefaultMaxChars}
       \/ /\ data \in {DictPayload({"segments"}, "list", s) :
                            s \in MidPayloads}
          /\ max_chars = MidMaxChars
       \/ /\ data \in {DictPayload({"segments"}, "list", s) :
                            s \in ScenarioCPayloads}
          /\ max_chars = ScenarioCMaxChars
       \/ /\ data \in OddPayloads
          /\ max_chars = DefaultMaxChars

\* data = json.load(f), and the check that data has the key 'segments'
WOpen ==
    /\ format = "whisper" /\ pc = "w_open"
    /\ IF "segments" \in data.keys
       THEN /\ segments' = data.items
            /\ pc' = "w_loop"
            /\ UNCHANGED raised
       ELSE /\ raised' = "ValueError"
            /\ pc' = "error"
            /\ UNCHANGED segments
    /\ UNCHANGED <<data, format, subtitle_entries, elvars, seg_idx, max_chars,
                   text, chunks, current_pos, iterations, pvars, sidevars>>

\* one iteration of the for loop over data['segments'], up to the chunking
\* loop of _subdivide_segment
WSegment ==
    /\ format = "whisper" /\ pc = "w_loop"
    /\ seg_idx < Len(segments)
    /\ LET segment == segments[seg_idx + 1]
           stripped == Strip(segment.text)
       IN  /\ seg_idx' = seg_idx + 1
           /\ IF ~segment.has_keys \/ stripped = <<>>
              THEN UNCHANGED <<pc, subtitle_entries, text, chunks, current_pos,
                               iterations>>
              ELSE IF Len(stripped) <= max_chars
              THEN /\ subtitle_entries' =
                        Append(subtitle_entries,
                               Cue(RInt(segment.start), RInt(segment.end),
                                   stripped))
                   /\ UNCHANGED <<pc, text, chunks, current_pos, iterations>>
              ELSE /\ pc' = "w_chunk"
                   /\ text' = stripped
                   /\ chunks' = <<>>
                   /\ current_pos' = 0
                   /\ iterations' = 0
                   /\ UNCHANGED subtitle_entries
    /\ UNCHANGED <<data, raised, format, elvars, segments, max_chars, pvars,
                   sidevars>>

\* one iteration of the while loop of _subdivide_segment
WChunk ==
    /\ format = "whisper" /\ pc = "w_chunk"
    /\ current_pos < Len(text)
    /\ LET remaining_text == SubSeq(text, current_pos + 1, Len(text))
           split_point == find_best_split_point(remaining_text, max_chars)
           chunk == Strip(SubSeq(remaining_text, 1, split_point))
       IN  /\ chunks' = IF chunk # <<>> THEN Append(chunks, chunk) ELSE chunks
           /\ current_pos' = current_pos + split_point
           /\ iterations' = iterations + 1
    /\ UNCHANGED <<data, raised, format, pc, subtitle_entries, elvars,
                   segments, seg_idx, max_chars, text, pvars, sidevars>>

\* the timing loop of _subdivide_segment, and parse's extend of its result
WTime ==
    /\ format = "whisper" /\ pc = "w_chunk"
    /\ current_pos >= Len(text)
    /\ LET segment == segments[seg_idx]
       IN  subtitle_entries' =
               subtitle_entries \o
               TimeChunks(chunks, 1, RInt(segment.start), segment.start,
                          segment.end, <<>>)
    /\ pc' = "w_loop"
    /\ UNCHANGED <<data, raised, format, elvars, segments, seg_idx, max_chars,
                   text, chunks, current_pos, iterations, pvars, sidevars>>

\* return subtitle_entries
WReturn ==
    /\ format = "whisper" /\ pc = "w_loop"
    /\ seg_idx = Len(segments)
    /\ pc' = "done"
    /\ UNCHANGED <<data, raised, format, subtitle_entries, elvars, wvars, pvars,
                   sidevars>>

(***************************************************************************)
(* src/src/subtitle_processing/parsers.py: the factory and the two parsers *)
(* that services/subtitle_service.py uses.                                 *)
(***************************************************************************)
\* SubtitleParserFactory.create_parser: the class it returns, or "ValueError"
create_parser(d) ==
    IF d.type = "dict" /\ "segments" \in d.keys
    THEN "WhisperSubtitleParser"
    ELSE IF /\ d.type = "list" /\ d.items # <<>>
            /\ "characters" \in d.items[1].keys
    THEN "ElevenLabsSubtitleParser"
    ELSE "ValueError"

\* the list comprehension of WhisperSubtitleParser.parse
RECURSIVE PWhisperEntries(_)
PWhisperEntries(segs) ==
    IF segs = <<>> THEN <<>>
    ELSE LET segment == Head(segs)
             rest == PWhisperEntries(Tail(segs))
         IN  IF segment.has_keys
             THEN <<Cue(RInt(segment.start), RInt(segment.end),
                        Strip(segment.text))>> \o rest
             ELSE rest

\* the block gets past both continue statements of ElevenLabsSubtitleParser.parse
PBlockUsed(b) ==
    /\ BlockKeys \subseteq b.keys
    /\ Len(b.characters) = Len(b.character_start_times_seconds)

\* the loop of ElevenLabsSubtitleParser.parse over blocks with samples
RECURSIVE PELEntries(_)
PELEntries(blocks) ==
    IF blocks = <<>> THEN <<>>
    ELSE LET segment == Head(blocks)
             times == segment.character_start_times_seconds
             rest == PELEntries(Tail(blocks))
         IN  IF PBlockUsed(segment)
             THEN <<Cue(RInt(times[1]), RInt(times[Len(times)] + PEndBuffer),
                        segment.characters)>> \o rest
             ELSE rest

PSegmentPayloads ==
    {p \in WhisperPayloads : \A k \in 1..Len(p) : Len(p[k].text) <= 1}

PPayloads ==
    OddPayloads
    \cup {ListPayload(items) :
            items \in TwoBlockPayloads \cup BadBlockPayloads \cup {<<>>}}
    \cup {DictPayload({"segments"}, "list", p) : p \in PSegmentPayloads}

InitP ==
    /\ ParseIdle
    /\ pc = "p_create_parser"
    /\ data \in PPayloads
    /\ max_chars = DefaultMaxChars

PCreateParser ==
    /\ pc = "p_create_parser"
    /\ LET class == create_parser(data)
       IN  IF class = "ValueError"
           THEN /\ raised' = "ValueError"
                /\ pc' = "error"
                /\ UNCHANGED parser
           ELSE /\ parser' = class
                /\ pc' = "p_parse"
                /\ UNCHANGED raised
    /\ UNCHANGED <<data, format, subtitle_entries, elvars, wvars, p_entries,
                   sidevars>>

\* WhisperSubtitleParser.parse; iterating over a null 'segments' is a TypeError
PWhisperParse ==
    /\ pc = "p_parse" /\ parser = "WhisperSubtitleParser"
    /\ IF "segments" \notin data.keys
       THEN /\ raised' = "ValueError"
            /\ pc' = "error"
            /\ UNCHANGED p_entries
       ELSE IF data.segments_type # "list"
       THEN /\ raised' = "TypeError"
            /\ pc' = "error"
            /\ UNCHANGED p_entries
       ELSE /\ p_entries' = PWhisperEntries(data.items)
            /\ pc' = "done"
            /\ UNCHANGED raised
    /\ UNCHANGED <<data, format, subtitle_entries, elvars, wvars, parser,
                   sidevars>>

\* ElevenLabsSubtitleParser.parse; times[0] of a used block without samples
\* is an IndexError
PELParse ==
    /\ pc = "p_parse" /\ parser = "ElevenLabsSubtitleParser"
    /\ IF data.type # "list"
       THEN /\ raised' = "ValueError"
            /\ pc' = "error"
            /\ UNCHANGED p_entries
       ELSE IF \E k \in 1..Len(data.items) :
                  /\ PBlockUsed(data.items[k])
                  /\ data.items[k].character_start_times_seconds = <<>>
       THEN /\ raised' = "IndexError"
            /\ pc' = "error"
            /\ UNCHANGED p_entries
       ELSE /\ p_entries' = PELEntries(data.items)
            /\ pc' = "done"
            /\ UNCHANGED raised
    /\ UNCHANGED <<data, format, subtitle_entries, elvars, wvars, parser,
                   sidevars>>

(***************************************************************************)
(* src/src/video_pipeline/video_manager.py: VideoManager over the stories  *)
(* table of db/manager.py.  A story is its status, its error column and    *)
(* whether audio_path and timestamps_path are both set.                    *)
(***************************************************************************)
StoryStatus ==
    {"NEW", "AUDIO_GENERATED", "READY", "VIDEO_PROCESSING", "VIDEO_READY",
     "VIDEO_ERROR", "ERROR"}

\* the failed stories taken as ready too
get_video_ready_statuses_with_failed ==
    {"READY", "AUDIO_GENERATED", "VIDEO_ERROR"}

get_video_ready_statuses == {"READY", "AUDIO_GENERATED"}

StoryIds == 1..NumStories

Story(status, error, has_files) ==
    [status |-> status, error |-> error, has_files |-> has_files]

\* update_story_status: UPDATE stories SET status = ?, error = ? WHERE id = ?
update_story_status(table, story_id, status, error) ==
    [table EXCEPT ![story_id] = Story(status, error, @.has_files)]

\* the ids of the ready stories without their files filtered out, in the order
\* of the query (created_at DESC: here the larger id first)
RECURSIVE ReadyIds(_, _)
ReadyIds(table, n) ==
    IF n = 0 THEN <<>>
    ELSE IF table[n].status \in get_video_ready_statuses /\ table[n].has_files
    THEN <<n>> \o ReadyIds(table, n - 1)
    ELSE ReadyIds(table, n - 1)

\* get_stories_ready_for_video: the Story objects, as read at query time
get_stories_ready_for_video(table) ==
    LET ids == ReadyIds(table, NumStories)
    IN  [k \in 1..Len(ids) |->
            [id |-> ids[k], status |-> table[ids[k]].status,
             has_files |-> table[ids[k]].has_files]]

\* the except clause of create_video_for_story: the error message it stores
ErrorMessage == "Failed to create video"

\* the failure only logged and raised again
create_video_failed_unrecorded(table, story_id) == table

\* the except clause of create_video_for_story, before it raises again
create_video_failed(table, story_id) ==
    update_story_status(table, story_id, "VIDEO_ERROR", ErrorMessage)

\* no parser runs
ParseOff ==
    /\ ParseIdle
    /\ pc = "off"
    /\ data = ListPayload(<<>>)
    /\ max_chars = DefaultMaxChars

\* no video manager runs
VMOff ==
    /\ stories = <<>>
    /\ batch = <<>>
    /\ story_idx = 0
    /\ vm_pc = "off"
    /\ vm_caught = "none"
    /\ retry_id = 0

\* process_csv does not run
CSVOff ==
    /\ rows = <<>>
    /\ out_rows = <<>>
    /\ processed_count = 0
    /\ csv_pc = "off"

\* get_posts does not run
RCOff ==
    /\ retries = 0
    /\ tries = 0
    /\ success = FALSE
    /\ posts = 0
    /\ quit_count = 0
    /\ attempts = <<>>
    /\ rc_pc = "off"

\* the clip ids of execute, in the order it registers them
ClipOrder == <<"audio", "video", "subtitles", "final">>

ClipIds == {ClipOrder[j] : j \in 1..Len(ClipOrder)}

\* _active_clips = {}
NoClips == [id \in ClipIds |-> 0]

\* no VideoPipeline is in use
VPOff ==
    /\ vp_pc = "off"
    /\ initialized = FALSE
    /\ cleaned = FALSE
    /\ active_clips = NoClips
    /\ next_clip = 0
    /\ block_exc = "none"
    /\ propagated = "none"
    /\ enters_left = 0
    /\ vp_service = FALSE
    /\ registered = {}
    /\ close_called = {}
    /\ closed = {}

\* only the video manager runs
VMOnly == ParseOff /\ CSVOff /\ RCOff /\ VPOff

\* only a parser runs
ParseOnly == VMOff /\ CSVOff /\ RCOff /\ VPOff

\* only process_csv runs
CSVOnly == ParseOff /\ VMOff /\ RCOff /\ VPOff

\* only get_posts runs
RCOnly == ParseOff /\ VMOff /\ CSVOff /\ VPOff

\* only a VideoPipeline is in use
VPOnly == ParseOff /\ VMOff /\ CSVOff /\ RCOff

InitVM ==
    /\ VMOnly
    /\ stories \in [StoryIds ->
                        {Story(st, IF st \in {"VIDEO_ERROR", "ERROR"}
                                   THEN "earlier failure" ELSE "none", f) :
                            st \in StoryStatus, f \in BOOLEAN}]
    /\ batch = <<>>
    /\ story_idx = 0
    /\ vm_pc = "idle"
    /\ vm_caught = "none"
    /\ retry_id = 0

\* process_ready_stories up to its for loop
VMFetch ==
    /\ vm_pc = "idle"
    /\ batch' = get_stories_ready_for_video(stories)
    /\ vm_pc' = IF batch' = <<>> THEN "done" ELSE "loop"
    /\ UNCHANGED <<stories, story_idx, vm_caught, retry_id>>
    /\ UNCHANGED <<parsevars, csvvars, rcvars, vpvars>>

\* one iteration of the for loop: create_video_for_story up to the call of
\* the pipeline.  The two checks before the try raise ValueError, which the
\* loop logs; os.makedirs may fail inside the try.
VMBegin ==
    /\ vm_pc = "loop"
    /\ story_idx < Len(batch)
    /\ LET story == batch[story_idx + 1]
       IN  IF \/ story.status \notin get_video_ready_statuses
              \/ ~story.has_files
           THEN /\ story_idx' = story_idx + 1
                /\ vm_caught' = "ValueError"
                /\ UNCHANGED <<stories, vm_pc>>
           ELSE \E makedirs_ok \in BOOLEAN :
                    IF makedirs_ok
                    THEN /\ stories' = update_story_status(
                                stories, story.id, "VIDEO_PROCESSING", "none")
                         /\ vm_pc' = "pipeline"
                         /\ UNCHANGED <<story_idx, vm_caught>>
                    ELSE /\ stories' = create_video_failed(stories, story.id)
                         /\ story_idx' = story_idx + 1
                         /\ vm_caught' = "OSError"
                         /\ UNCHANGED vm_pc
    /\ UNCHANGED <<batch, retry_id>>
    /\ UNCHANGED <<parsevars, csvvars, rcvars, vpvars>>

\* the pipeline returns or raises; the loop logs what was raised and continues
VMPipeline ==
    /\ vm_pc = "pipeline"
    /\ LET story == batch[story_idx + 1]
       IN  \E pipeline_ok \in BOOLEAN :
               IF pipeline_ok
               THEN /\ stories' = update_story_status(stories, story.id,
                                                      "VIDEO_READY", "none")
                    /\ vm_caught' = "none"
               ELSE /\ stories' = create_video_failed(stories, story.id)
                    /\ vm_caught' = "Exception"
    /\ story_idx' = story_idx + 1
    /\ vm_pc' = "loop"
    /\ UNCHANGED <<batch, retry_id>>
    /\ UNCHANGED <<parsevars, csvvars, rcvars, vpvars>>

\* the for loop is exhausted
VMReturn ==
    /\ vm_pc = "loop"
    /\ story_idx = Len(batch)
    /\ vm_pc' = "done"
    /\ UNCHANGED <<stories, batch, story_idx, vm_caught, retry_id>>
    /\ UNCHANGED <<parsevars, csvvars, rcvars, vpvars>>

(***************************************************************************)
(* create_video_for_story called on its own with a Story object, and       *)
(* retry_failed_video, which calls it with the object it read before it    *)
(* reset the status.  The call is the loop body above run on that one      *)
(* object; what it raises leaves the caller and is recorded in vm_caught.  *)
(***************************************************************************)
\* get_story: the Story object of the stored row
get_story(table, story_id) ==
    [id |-> story_id, status |-> table[story_id].status,
     has_files |-> table[story_id].has_files]

\* the statuses retry_failed_video accepts
RetryStatuses == {"VIDEO_ERROR", "VIDEO_PROCESSING"}

\* Story objects a caller may hold: any status and files, whatever is stored
StoryObjects ==
    {[id |-> id, status |-> st, has_files |-> f] :
        id \in StoryIds, st \in StoryStatus, f \in BOOLEAN}

InitVMCall ==
    /\ VMOnly
    /\ stories \in [StoryIds ->
                        {Story(st, IF st \in {"VIDEO_ERROR", "ERROR"}
                                   THEN "earlier failure" ELSE "none", f) :
                            st \in StoryStatus, f \in BOOLEAN}]
    /\ story_idx = 0
    /\ vm_caught = "none"
    /\ \/ /\ vm_pc = "retry"
          /\ retry_id \in StoryIds \cup {NumStories + 1}
          /\ batch = <<>>
       \/ /\ vm_pc = "loop"
          /\ retry_id = 0
          /\ batch \in {<<story>> : story \in StoryObjects}

\* retry_failed_video up to its call of create_video_for_story(story)
VMRetry ==
    /\ vm_pc = "retry"
    /\ IF retry_id \notin StoryIds
       THEN /\ vm_caught' = "ValueError"
            /\ vm_pc' = "done"
            /\ UNCHANGED <<stories, batch>>
       ELSE LET story == get_story(stories, retry_id)
            IN  IF story.status \notin RetryStatuses
                THEN /\ vm_caught' = "ValueError"
                     /\ vm_pc' = "done"
                     /\ UNCHANGED <<stories, batch>>
                ELSE /\ stories' = update_story_status(stories, retry_id,
                                                       "READY", "none")
                     /\ batch' = <<story>>
                     /\ vm_pc' = "loop"
                     /\ UNCHANGED vm_caught
    /\ UNCHANGED <<story_idx, retry_id>>
    /\ UNCHANGED <<parsevars, csvvars, rcvars, vpvars>>

(***************************************************************************)
(* src/src/elevenlabs_api.py: process_csv and _process_single_row.  A row  *)
(* is what its text-to-speech call does: "ok", or the exception it raises. *)
(* An output row is the input row's number with its output_mp3_path.       *)
(***************************************************************************)
\* except (requests.RequestException, IOError, json.JSONDecodeError)
RowCaught == {"RequestException", "IOError", "JSONDecodeError"}

\* exceptions of other classes, as the Exception the test suite raises
RowUncaught == {"Exception"}

RowOutcomes == {"ok"} \cup RowCaught \cup RowUncaught

RECURSIVE RowsUpTo(_)
RowsUpTo(n) ==
    IF n = 0 THEN {<<>>}
    ELSE LET shorter == RowsUpTo(n - 1)
         IN  shorter \cup {Append(r, o) : r \in shorter, o \in RowOutcomes}

\* whether _process_single_row lets the failure of the row through
process_single_row_raises(outcome) == outcome \notin {"ok"} \cup RowCaught

\* the row _process_single_row returns for input row k
process_single_row(k, outcome) ==
    [row |-> k,
     output_mp3_path |-> IF outcome = "ok" THEN "mp3_path" ELSE "ERROR"]

InitCSV ==
    /\ CSVOnly
    /\ rows \in RowsUpTo(MaxRows)
    /\ out_rows = <<>>
    /\ processed_count = 0
    /\ csv_pc = "loop"

\* one iteration of for row in reader; what _process_single_row lets through
\* reaches the except Exception of process_csv, which logs it and returns
CSVRow ==
    /\ csv_pc = "loop"
    /\ processed_count < Len(rows)
    /\ LET k == processed_count + 1
           processed_row == process_single_row(k, rows[k])
       IN  IF process_single_row_raises(rows[k])
           THEN /\ csv_pc' = "failed"
                /\ UNCHANGED <<out_rows, processed_count>>
           ELSE /\ out_rows' = Append(out_rows, processed_row)
                /\ processed_count' = k
                /\ UNCHANGED csv_pc
    /\ UNCHANGED <<rows, parsevars, vmvars, rcvars, vpvars>>

\* the reader is exhausted, the files are closed
CSVReturn ==
    /\ csv_pc = "loop"
    /\ processed_count = Len(rows)
    /\ csv_pc' = "done"
    /\ UNCHANGED <<rows, out_rows, processed_count, parsevars, vmvars,
                   rcvars, vpvars>>

(***************************************************************************)
(* src/src/reddit_crawl.py: get_posts.  One iteration of its while loop is *)
(* an attempt; what happens in it is one of AttemptOutcomes.               *)
(***************************************************************************)
AttemptOutcomes ==
    {"setup_raises",   \* setup_webdriver() raises, before the try
     "raises",         \* driver.get, find_element or json.loads raises
     "falsy",          \* the page parses to a falsy value, as {} or null
     "malformed",      \* a truthy response, whose traversal raises
     "ok"}             \* a truthy response with PagePosts well-formed posts

Attempt(driver, outcome) == [driver |-> driver, outcome |-> outcome]

\* the attempt ended without an exception and with a truthy response
Succeeded(attempt) == attempt.outcome = "ok"

InitRC ==
    /\ RCOnly
    /\ retries \in 0..MaxRetries
    /\ tries = 0
    /\ success = FALSE
    /\ posts = 0
    /\ quit_count = 0
    /\ attempts = <<>>
    /\ rc_pc = "loop"

\* one iteration of while tries <= retries and not success.  A malformed
\* response has stored the posts before the one whose traversal raises;
\* driver.quit() in the finally clause may raise itself.
RCAttempt ==
    /\ rc_pc = "loop"
    /\ tries <= retries /\ ~success
    /\ \E outcome \in AttemptOutcomes, stored \in 0..(PagePosts - 1),
          quit_ok \in BOOLEAN :
          IF outcome = "setup_raises"
          THEN /\ attempts' = Append(attempts, Attempt(FALSE, outcome))
               /\ rc_pc' = "raised"
               /\ UNCHANGED <<tries, success, posts, quit_count>>
          ELSE /\ attempts' = Append(attempts, Attempt(TRUE, outcome))
               /\ success' = (outcome \in {"malformed", "ok"})
               /\ posts' = IF outcome = "ok" THEN PagePosts
                           ELSE IF outcome = "malformed" THEN stored
                           ELSE posts
               /\ quit_count' = quit_count + 1
               /\ IF quit_ok
                  THEN tries' = tries + 1 /\ UNCHANGED rc_pc
                  ELSE rc_pc' = "raised" /\ UNCHANGED tries
    /\ UNCHANGED <<retries, parsevars, vmvars, csvvars, vpvars>>

\* the while condition is false: return posts
RCReturn ==
    /\ rc_pc = "loop"
    /\ ~(tries <= retries /\ ~success)
    /\ rc_pc' = "done"
    /\ UNCHANGED <<retries, tries, success, posts, quit_count, attempts,
                   parsevars, vmvars, csvvars, vpvars>>

(***************************************************************************)
(* src/src/video_pipeline/video_pipeline.py: VideoPipeline as a context    *)
(* manager.  A clip is the number of its creation; 0 under a clip id says  *)
(* that no clip is registered there.                                       *)
(***************************************************************************)
MaxClips == MaxExecutes * Len(ClipOrder)

\* the place of a clip id in execute
ClipIndex(id) == CHOOSE j \in 1..Len(ClipOrder) : ClipOrder[j] = id

\* the clips of a registry
Clips(registry) == {registry[id] : id \in ClipIds} \ {0}

\* _register_clip, called for the first done clip ids of execute: a clip
\* registered under an id replaces the one that was there
register_clips(registry, first, done) ==
    [id \in ClipIds |->
        IF ClipIndex(id) <= done THEN first + ClipIndex(id)
        ELSE registry[id]]

\* what execute does: done is the number of clips it registered, and ok says
\* whether it returned.  validate_inputs or process_audio raising is done =
\* 0; render raising is done = 4 and not ok.
ExecuteOutcomes ==
    {o \in [done : 0..Len(ClipOrder), ok : BOOLEAN] :
        o.ok => o.done = Len(ClipOrder)}

\* the two guards of _cleanup are passed
cleanup_runs(is_initialized, is_cleaned) == is_initialized /\ ~is_cleaned

exit_raises_cleanup_error(exc, cleanup_raised) ==
    IF cleanup_raised THEN "cleanup" ELSE exc

\* what leaves __exit__: raise exc_val in the except clause if the block
\* raised, the cleanup error if it did not; if _cleanup returned, __exit__
\* returns None and the exception of the block goes on
exit_raises(exc, cleanup_raised) ==
    IF cleanup_raised
    THEN IF exc # "none" THEN exc ELSE "cleanup"
    ELSE exc

\* with VideoPipeline(config) as pipeline, as create_video_for_story and the
\* command line have it: one with statement on a new instance
InitVP ==
    /\ VPOnly
    /\ vp_pc = "out"
    /\ initialized = FALSE
    /\ cleaned = FALSE
    /\ active_clips = NoClips
    /\ next_clip = 0
    /\ block_exc = "none"
    /\ propagated = "none"
    /\ enters_left = 1
    /\ vp_service = FALSE
    /\ registered = {}
    /\ close_called = {}
    /\ closed = {}

\* any use of one instance: up to MaxEnters with statements on it, or the
\* call of execute in VideoService.process_video
InitVPUse ==
    /\ VPOnly
    /\ vp_pc = "out"
    /\ initialized = FALSE
    /\ cleaned = FALSE
    /\ active_clips = NoClips
    /\ next_clip = 0
    /\ block_exc = "none"
    /\ propagated = "none"
    /\ \/ enters_left = MaxEnters /\ vp_service = FALSE
       \/ enters_left = 0 /\ vp_service = TRUE
    /\ registered = {}
    /\ close_called = {}
    /\ closed = {}

\* __enter__
VPEnter ==
    /\ vp_pc = "out"
    /\ enters_left > 0
    /\ initialized' = TRUE
    /\ vp_pc' = "in"
    /\ enters_left' = enters_left - 1
    /\ block_exc' = "none"
    /\ propagated' = "none"
    /\ UNCHANGED <<cleaned, active_clips, next_clip, vp_service, registered,
                   close_called, closed, parsevars, vmvars, csvvars, rcvars>>

\* execute in the body of the with-block; its exception leaves the body
VPExecute ==
    /\ vp_pc = "in"
    /\ block_exc = "none"
    /\ next_clip + Len(ClipOrder) <= MaxClips
    /\ \E o \in ExecuteOutcomes :
          /\ active_clips' = register_clips(active_clips, next_clip, o.done)
          /\ registered' = registered \cup
                             ((next_clip + 1)..(next_clip + o.done))
          /\ next_clip' = next_clip + o.done
          /\ block_exc' = IF o.ok THEN "none" ELSE "original"
    /\ UNCHANGED <<vp_pc, initialized, cleaned, propagated, enters_left,
                   vp_service, close_called, closed, parsevars, vmvars,
                   csvvars, rcvars>>

\* __exit__ with _cleanup: failing are the clips whose close() raises
VPExit ==
    /\ vp_pc = "in"
    /\ \E failing \in SUBSET Clips(active_clips) :
          LET runs == cleanup_runs(initialized, cleaned)
          IN  /\ ~runs => failing = {}
              /\ close_called' = IF runs
                                 THEN close_called \cup Clips(active_clips)
                                 ELSE close_called
              /\ closed' = IF runs
                           THEN closed \cup (Clips(active_clips) \ failing)
                           ELSE closed
              /\ active_clips' = IF runs THEN NoClips ELSE active_clips
              /\ propagated' = exit_raises(block_exc, failing # {})
    /\ cleaned' = TRUE
    /\ vp_pc' = "out"
    /\ UNCHANGED <<initialized, next_clip, block_exc, enters_left, vp_service,
                   registered, parsevars, vmvars, csvvars, rcvars>>

\* src/src/services/video_service.py: process_video calls execute on a new
\* instance outside any with statement, and drops the instance
VPProcessVideo ==
    /\ vp_pc = "out"
    /\ vp_service
    /\ \E o \in ExecuteOutcomes :
          /\ active_clips' = register_clips(active_clips, next_clip, o.done)
          /\ registered' = registered \cup
                             ((next_clip + 1)..(next_clip + o.done))
          /\ next_clip' = next_clip + o.done
          /\ propagated' = IF o.ok THEN "none" ELSE "original"
    /\ vp_pc' = "ended"
    /\ UNCHANGED <<initialized, cleaned, block_exc, enters_left, vp_service,
                   close_called, closed, parsevars, vmvars, csvvars, rcvars>>

(***************************************************************************)
(* The factory picks a parser, which runs on the payload.                  *)
(***************************************************************************)
Init == (InitEL \/ InitW \/ InitP) /\ ParseOnly

Next ==
    \/ CreateParser
    \/ ELNormalize \/ ELStart \/ ELStep \/ ELFinal \/ ELSmooth
    \/ WOpen \/ WSegment \/ WChunk \/ WTime \/ WReturn
    \/ PCreateParser \/ PWhisperParse \/ PELParse

Spec == Init /\ [][Next]_vars

(***************************************************************************)
(* The video manager processes the ready stories.                          *)
(***************************************************************************)
NextVM == VMFetch \/ VMBegin \/ VMPipeline \/ VMReturn

SpecVM == InitVM /\ [][NextVM]_vars

(***************************************************************************)
(* One call of create_video_for_story, directly or by retry_failed_video.  *)
(***************************************************************************)
NextVMCall == VMRetry \/ VMBegin \/ VMPipeline \/ VMReturn

SpecVMCall == InitVMCall /\ [][NextVMCall]_vars

(***************************************************************************)
(* process_csv runs over the rows of the input CSV.                        *)
(***************************************************************************)
NextCSV == CSVRow \/ CSVReturn

SpecCSV == InitCSV /\ [][NextCSV]_vars

(***************************************************************************)
(* get_posts crawls one feed.                                              *)
(***************************************************************************)
NextRC == RCAttempt \/ RCReturn

SpecRC == InitRC /\ [][NextRC]_vars

(***************************************************************************)
(* One with statement on a new VideoPipeline.                              *)
(***************************************************************************)
NextVP == VPEnter \/ VPExecute \/ VPExit

SpecVP == InitVP /\ [][NextVP]_vars

(***************************************************************************)
(* Any use of one VideoPipeline.                                           *)
(***************************************************************************)
NextVPUse == VPEnter \/ VPExecute \/ VPExit \/ VPProcessVideo

SpecVPUse == InitVPUse /\ [][NextVPUse]_vars

(***************************************************************************)
(* The claims.                                                             *)
(***************************************************************************)
IsEL == format = "elevenlabs"
IsW == format = "whisper"
NumCues == Len(subtitle_entries)
LastCue == subtitle_entries[NumCues]

\* the chunk ending at sample i was flushed by a break condition
JustFlushed == IsEL /\ pc = "loop" /\ i > 0 /\ current_text = <<>>

\* clamp(0.5 * w, 0.2, 2.5) s, the duration rule as the specification states it
StatedClamp(w) == Min2(Max2(20, 50 * w), 250)
\* the same with the constants scaled by 1.2 and the cap at 3.0 s
StatedFinalClamp(w) == Min2(Max2(24, 60 * w), 300)

\* C1: no cue of either parser has text that is empty after trimming.
C1_NoEmptyCueText ==
    \A k \in 1..NumCues : Strip(subtitle_entries[k].text) # <<>>

\* C2: for non-decreasing character start times, consecutive cues returned by
\* the character-level parser do not overlap: cue[k].end <= cue[k+1].start.
C2_NoOverlap ==
    (IsEL /\ pc = "done" /\ Monotone(char_timings)) =>
        \A k \in 1..(NumCues - 1) :
            RLe(subtitle_entries[k].end, subtitle_entries[k + 1].start)

\* C3: every cue of either parser has start < end, for segments with
\* start < end and for non-decreasing character start times.
C3_StartBeforeEnd ==
    ((IsEL /\ Monotone(char_timings)) \/ (IsW /\ SegmentsPositive(segments)))
        => \A k \in 1..NumCues :
               RLt(subtitle_entries[k].start, subtitle_entries[k].end)

\* C4: the cue list is non-decreasing in start, for non-decreasing character
\* start times and for ordered, non-overlapping segments, the sub-chunk cues
\* of a subdivided segment included.
C4_StartsNonDecreasing ==
    ((IsEL /\ Monotone(char_timings)) \/ (IsW /\ SegmentsOrdered(segments)))
        => \A k \in 1..(NumCues - 1) :
               RLe(subtitle_entries[k].start, subtitle_entries[k + 1].start)

\* a subdivided segment's sub-chunk cues followed by the next segment's cue
C4_Witness ==
    /\ IsW /\ pc = "done" /\ SegmentsOrdered(segments)
    /\ Len(segments) = 2
    /\ Len(Strip(segments[1].text)) > max_chars
    /\ Len(Strip(segments[2].text)) \in 1..max_chars
    /\ NumCues >= 3
    /\ RLt(subtitle_entries[1].start, subtitle_entries[2].start)
    /\ RLt(subtitle_entries[NumCues - 1].start, LastCue.start)

\* C5: before smoothing, every character-level cue with word count w lasts
\* at least clamp(0.5w, 0.2, 2.5) s, and the flushed final chunk's cue at
\* least clamp(0.6w, 0.24, 3.0) s.
C5_DurationFloor ==
    (IsEL /\ pc \in {"loop", "smooth"}) =>
        \A k \in 1..NumCues :
            LET cue == subtitle_entries[k]
                w == WordCount(cue.text)
                floor == IF flushed_final /\ k = NumCues
                         THEN StatedFinalClamp(w) ELSE StatedClamp(w)
            IN  RLe(RInt(floor), RSub(cue.end, cue.start))

\* a final chunk that the minimum-duration rule stretched to exactly the floor
C5_Witness ==
    /\ IsEL /\ pc = "smooth" /\ flushed_final /\ NumCues >= 2
    /\ RSub(LastCue.end, LastCue.start)
         = RInt(StatedFinalClamp(WordCount(LastCue.text)))
    /\ WordCount(LastCue.text) >= 1

\* C6: a chunk flushed by a break condition, with word count w, ends at
\* last_char_start + 0.1 + clamp(0.5w, 0.2, 2.5) unless the minimum-duration
\* rule stretches it to start + clamp(0.5w, 0.2, 2.5).
C6_BreakBufferAsStated ==
    (JustFlushed /\ NumCues > 0) =>
        LET w == WordCount(LastCue.text)
        IN  \/ LastCue.end = RInt(last_char_end + StatedClamp(w))
            \/ LastCue.end = RAdd(LastCue.start, RInt(StatedClamp(w)))

\* C7: the final chunk's buffer and minimum duration are the non-final
\* formula with base and per-word constants times 1.2 and the cap 3.0 s, so
\* the final chunk never gets less trailing time than a non-final chunk of
\* the same word count.
C7_FinalScalesBreak ==
    (IsEL /\ pc = "smooth" /\ flushed_final) =>
        LET w == WordCount(LastCue.text)
        IN  /\ 10 * FinalBuffer(w)
                 = Min2(Max2(12 * base_buffer, 12 * word_based_buffer * w),
                        10 * FinalMaxBuffer)
            /\ 10 * FinalMinDuration(w)
                 = Min2(Max2(12 * base_min_duration, 12 * word_based_min * w),
                        10 * FinalMaxMinDuration)
            /\ RLe(RInt(last_char_end + Buffer(w)), LastCue.end)

\* the four break conditions of the claim at sample k, before it is appended
C8_StatedBreak(k) ==
    LET char == char_timings[k][1]
        start_time == char_timings[k][2]
    IN  \/ char \in {".", "!", "?", ","}
        \/ char = " " /\ start_time - segment_start > 150
        \/ Len(current_text) + 1 >= 60
        \/ k # Len(char_timings) /\ char_timings[k + 1][2] - start_time > 50

C9_MaxCharsPerCue ==
    IsEL => \A k \in 1..NumCues :
                Len(subtitle_entries[k].text) <= max_segment_chars

\* C10: no sub-chunk text of _subdivide_segment exceeds max_chars.
C10_SubChunkWithinMaxChars ==
    IsW => /\ \A k \in 1..Len(chunks) : Len(chunks[k]) <= max_chars
           /\ \A k \in 1..NumCues : Len(subtitle_entries[k].text) <= max_chars

\* a text without break characters or spaces, hard-cut at the limit
C10_Witness ==
    /\ IsW /\ pc = "w_chunk" /\ current_pos >= Len(text)
    /\ \A k \in 1..Len(text) : text[k] = "a"
    /\ Len(chunks) >= 2
    /\ Len(chunks[1]) = max_chars
    /\ max_chars >= 2

\* the text the chunking loop has not consumed yet
RemainingText == SubSeq(text, current_pos + 1, Len(text))

\* the last position k of txt, at most limit, past the given tenths of limit,
\* whose character is in the set, or 0
C11_LastPast(txt, limit, tenths, set) ==
    LET hits == {k \in 1..limit : txt[k] \in set /\ 10 * k > tenths * limit}
    IN  IF hits = {} THEN 0 ELSE CHOOSE k \in hits : \A m \in hits : m <= k

\* the split point in the stated order of preference; a break character at
\* position k gives k, a space at position k gives k - 1, the length before
\* it.  skip_first: a space that is the first character does not count.
C11_StatedSplit(txt, limit, skip_first) ==
    LET strong == C11_LastPast(txt, limit, 0, {".", "!", "?"})
        medium == C11_LastPast(txt, limit, 7, {";", ":", "--"})
        weak == C11_LastPast(txt, limit, 8, {",", ")", "]", "}", "\""})
        space == C11_LastPast(txt, limit, 0, {" "})
    IN  IF strong > 0 THEN strong
        ELSE IF medium > 0 THEN medium
        ELSE IF weak > 0 THEN weak
        ELSE IF space > (IF skip_first THEN 1 ELSE 0) THEN space - 1
        ELSE limit

C12_Multiplier(chunk) ==
    IF chunk[Len(chunk)] \in {".", "!", "?"} THEN 12
    ELSE IF chunk[Len(chunk)] \in {";", ":", "--"} THEN 11
    ELSE 10

\* parent_duration * (characters / total characters) * m of sub-chunk k
C12_Share(k) ==
    LET parent == segments[seg_idx]
    IN  Rat((parent.end - parent.start) * Len(chunks[k])
                * C12_Multiplier(chunks[k]),
            SumLen(chunks) * 10)

\* the smaller of two rationals
C12_RMin(a, b) == IF RLt(b, a) THEN b ELSE a

\* The cues cs of the sub-chunks, the last Len(chunks) of the list: every
\* allotment is the share, or with clamped the smaller of the share and the
\* time left to the parent's end, and every cue but the last is displayed for
\* its allotment less 0.1 s.
C12_Allotments(cs, clamped) ==
    LET n == Len(chunks)
        base == Len(cs) - n
        cue(k) == cs[base + k]
        allotment(k) ==
            IF k < n THEN RSub(cue(k + 1).start, cue(k).start)
            ELSE RSub(cue(k).end, cue(k).start)
        left(k) == RSub(RInt(segments[seg_idx].end), cue(k).start)
    IN  \A k \in 1..n :
            /\ cue(k).text = chunks[k]
            /\ allotment(k) =
                   IF clamped THEN C12_RMin(C12_Share(k), left(k))
                   ELSE C12_Share(k)
            /\ k < n =>
                   RSub(cue(k).end, cue(k).start)
                       = RSub(allotment(k), RInt(10))

\* C12 as stated: when a segment is split, every sub-chunk's allotment (to the
\* next sub-chunk's start, or to its own end for the last) is
\* parent_duration * characters / total characters * m with m = 1.2, 1.1 or
\* 1.0, and every sub-chunk but the last is displayed for it less 0.1 s.
C12_AllotmentAsStated ==
    [][(IsW /\ pc = "w_chunk" /\ pc' = "w_loop") =>
        C12_Allotments(subtitle_entries', FALSE)]_vars

\* C12, amended: the allotment is that product or, if smaller, the time left
\* from the sub-chunk's start to the parent segment's end.
C12_AllotmentClamped ==
    [][(IsW /\ pc = "w_chunk" /\ pc' = "w_loop") =>
        C12_Allotments(subtitle_entries', TRUE)]_vars

\* a segment of 1 s just split: the first sub-chunk ends on a strong break and
\* got its full share, the last one was cut to the time left
C12_Witness ==
    /\ IsW /\ pc = "w_loop" /\ seg_idx >= 1
    /\ segments[seg_idx].has_keys
    /\ text = Strip(segments[seg_idx].text) /\ Len(text) > max_chars
    /\ segments[seg_idx].end - segments[seg_idx].start = 100
    /\ Len(chunks) >= 2 /\ NumCues >= Len(chunks)
    /\ chunks[1][Len(chunks[1])] \in strong_breaks
    /\ RSub(subtitle_entries[NumCues - Len(chunks) + 2].start,
            subtitle_entries[NumCues - Len(chunks) + 1].start) = C12_Share(1)
    /\ RLt(RSub(LastCue.end, LastCue.start), C12_Share(Len(chunks)))
    /\ RLt(LastCue.start, LastCue.end)

\* (7 * e + 3 * s) / 10, which is e + 0.3 * (s - e)
C13_ThirtyPercent(e, s) ==
    Rat(7 * e[1] * s[2] + 3 * s[1] * e[2], 10 * e[2] * s[2])

\* what the smoother makes of the list before into the list after
C13_Smoothed(before, after) ==
    /\ Len(after) = Len(before)
    /\ \A k \in 1..Len(before) :
        /\ after[k].start = before[k].start
        /\ after[k].text = before[k].text
        /\ IF k < Len(before) /\ RLt(before[k].end, before[k + 1].start)
           THEN /\ after[k].end
                     = C13_ThirtyPercent(before[k].end, before[k + 1].start)
                /\ RLt(after[k].end, before[k + 1].start)
           ELSE after[k].end = before[k].end

\* C13: the smoother changes only the end of a cue followed by a gap, to
\* end + 0.3 * (next.start - end), strictly below next.start; starts, texts,
\* the last cue and the ends of cues without a gap after them stay; the pair
\* ((0, 1), 'A'), ((1.5, 2), 'B') gives the first end 1.15.
C13_SmootherClosesGaps ==
    [][(IsEL /\ pc = "smooth" /\ pc' = "done") =>
        /\ C13_Smoothed(subtitle_entries, subtitle_entries')
        /\ Smooth(<<Cue(RInt(0), RInt(100), <<"A">>),
                    Cue(RInt(150), RInt(200), <<"B">>)>>)
             = <<Cue(RInt(0), RInt(115), <<"A">>),
                 Cue(RInt(150), RInt(200), <<"B">>)>>]_vars

\* a returned list with a gap the smoother narrowed after the first cue and
\* an overlap it left alone after the second
C13_Witness ==
    /\ IsEL /\ pc = "done" /\ NumCues >= 3
    /\ RLt(subtitle_entries[1].end, subtitle_entries[2].start)
    /\ RLt(subtitle_entries[3].start, subtitle_entries[2].end)
    /\ Len(chunk_runs[1]) = 1
    /\ subtitle_entries[1].end
         = C13_ThirtyPercent(
               RInt(char_timings[1][2] + PerCharBuffer
                      + Buffer(WordCount(subtitle_entries[1].text))),
               subtitle_entries[2].start)

\* the payload has a record at all but no sample and no segment with text
C14_SoftEmpty ==
    \/ /\ format = "elevenlabs"
       /\ \A k \in 1..Len(data.items) :
              /\ BlockKeys \subseteq data.items[k].keys
              /\ data.items[k].characters = <<>>
              /\ data.items[k].character_start_times_seconds = <<>>
    \/ /\ format = "whisper"
       /\ \A k \in 1..Len(data.items) :
              data.items[k].has_keys /\ Strip(data.items[k].text) = <<>>

\* C14: a payload that format detection accepts but that has no usable sample
\* or segment (blocks with both arrays empty, segments of whitespace only)
\* makes parse return the empty cue list without raising.
C14_SoftEmptyReturnsEmpty ==
    C14_SoftEmpty =>
        /\ raised = "none"
        /\ subtitle_entries = <<>>

\* the format as stated, or "error"
C15_StatedFormat(d) ==
    IF /\ d.type = "dict" /\ "segments" \in d.keys
       /\ d.segments_type = "list" /\ Len(d.items) > 0
       /\ d.items[1].has_keys
    THEN "whisper"
    ELSE IF /\ d.type = "list" /\ Len(d.items) > 0
            /\ "characters" \in d.items[1].keys
            /\ "character_start_times_seconds" \in d.items[1].keys
    THEN "elevenlabs"
    ELSE "error"

\* C15: the format detection of either factory picks whisper exactly for a
\* dict whose 'segments' is a non-empty list whose first item has start, end
\* and text, elevenlabs exactly for a non-empty list whose first item has
\* characters and character_start_times_seconds, and fails with the format
\* error on every other payload.
C15_DetectAsStated ==
    (pc \notin {"create_parser", "p_create_parser", "off"}) =>
        LET stated == C15_StatedFormat(data)
        IN  IF stated = "whisper"
            THEN format = "whisper" \/ parser = "WhisperSubtitleParser"
            ELSE IF stated = "elevenlabs"
            THEN format = "elevenlabs" \/ parser = "ElevenLabsSubtitleParser"
            ELSE /\ format = "none" /\ parser = "none"
                 /\ pc = "error" /\ raised = "ValueError"

\* some block has both arrays, of different lengths
C16_LengthMismatch ==
    /\ data.type = "list"
    /\ \E k \in 1..Len(data.items) :
           /\ BlockKeys \subseteq data.items[k].keys
           /\ Len(data.items[k].characters)
                # Len(data.items[k].character_start_times_seconds)

\* C16: if a block's characters and character_start_times_seconds differ in
\* length, parsing fails with a validation error and returns no cue list; the
\* block is never skipped.
C16_MismatchRaises ==
    C16_LengthMismatch =>
        /\ pc # "done"
        /\ pc = "error" => raised = "ValueError"

\* C17: if the flattened start times are not non-decreasing, parsing fails
\* with a validation error instead of producing cues.
C17_NonMonotoneRaises ==
    (IsEL /\ ~Monotone(char_timings)) =>
        /\ subtitle_entries = <<>>
        /\ pc # "done"

\* some block or segment of the payload lacks a required key
C18_InvalidRecord ==
    \/ /\ data.type = "list"
       /\ \E k \in 1..Len(data.items) :
              ~(BlockKeys \subseteq data.items[k].keys)
    \/ /\ data.type = "dict" /\ data.segments_type = "list"
       /\ \E k \in 1..Len(data.items) : ~data.items[k].has_keys

\* C18: when a block or segment lacks a required key, parse raises before any
\* cue is made and returns none; the record is never skipped while cues are
\* emitted for the others.
C18_FailFast ==
    (C18_InvalidRecord /\ pc # "off" /\ parser = "none") =>
        /\ subtitle_entries = <<>>
        /\ pc # "done"

\* the story the batch loop is at
C19_Current == batch[story_idx + 1].id

\* C19: in process_ready_stories, when creating the video of one story fails,
\* that story's stored status becomes VIDEO_ERROR with the error message, no
\* other story is touched and the loop goes on to the next story; the batch
\* is every ready story, and at the end every story of it was processed.
C19_FailureIsolated ==
    /\ [][(vm_pc \in {"loop", "pipeline"} /\ story_idx' = story_idx + 1) =>
            /\ vm_caught' # "none" =>
                   /\ stories'[C19_Current].status = "VIDEO_ERROR"
                   /\ stories'[C19_Current].error = ErrorMessage
            /\ vm_caught' = "none" =>
                   stories'[C19_Current].status = "VIDEO_READY"
            /\ \A id \in StoryIds \ {C19_Current} : stories'[id] = stories[id]
            /\ vm_pc' = "loop"
            /\ batch' = batch]_vars
    /\ [](vm_pc = "done" =>
            /\ story_idx = Len(batch)
            /\ \A k \in 1..Len(batch) :
                   stories[batch[k].id].status \in {"VIDEO_READY", "VIDEO_ERROR"}
            /\ \A id \in StoryIds :
                   ~(/\ stories[id].status \in {"READY", "AUDIO_GENERATED"}
                     /\ stories[id].has_files))

\* the batch ended with its first story failed and a later story's video made
C19_Witness ==
    /\ vm_pc = "done" /\ Len(batch) >= 2
    /\ stories[batch[1].id].status = "VIDEO_ERROR"
    /\ stories[batch[1].id].error = ErrorMessage
    /\ stories[batch[2].id].status = "VIDEO_READY"

\* all blocks' characters in block order, taken from the last block back
RECURSIVE C20_AllCharacters(_)
C20_AllCharacters(blocks) ==
    IF blocks = <<>> THEN <<>>
    ELSE C20_AllCharacters(SubSeq(blocks, 1, Len(blocks) - 1))
             \o blocks[Len(blocks)].characters

\* the concatenation of the character runs
RECURSIVE C20_Concat(_)
C20_Concat(runs) ==
    IF runs = <<>> THEN <<>> ELSE Head(runs) \o C20_Concat(Tail(runs))

\* C20: the character-level path neither loses, duplicates nor reorders
\* text: the blocks are flattened in block order, and the untrimmed character
\* runs of the chunks, one per cue and in output order, concatenate to the
\* characters consumed so far, at the end to all blocks' characters.
C20_TextPreserved ==
    (IsEL /\ pc \in {"loop", "smooth", "done"}) =>
        LET all == C20_AllCharacters(data.items)
        IN  /\ [k \in 1..Len(char_timings) |-> char_timings[k][1]] = all
            /\ Len(chunk_runs) = NumCues
            /\ \A k \in 1..NumCues :
                   subtitle_entries[k].text
                       \in {Strip(chunk_runs[k]),
                            Strip(chunk_runs[k]) \o Ellipsis}
            /\ pc = "loop" =>
                   C20_Concat(chunk_runs) \o current_text = SubSeq(all, 1, i)
            /\ pc # "loop" => C20_Concat(chunk_runs) = all

\* two blocks with characters, returned as one chunk that spans both
C20_Witness ==
    /\ IsEL /\ pc = "done"
    /\ Len(data.items) = 2
    /\ data.items[1].characters # <<>>
    /\ data.items[2].characters # <<>>
    /\ NumCues = 1
    /\ chunk_runs[1]
         = data.items[1].characters \o data.items[2].characters
    /\ Len(LastCue.text) < Len(chunk_runs[1])

\* C21: scenario A, characters H i ! at 0.0, 0.2, 0.4 s, yields exactly one
\* cue with start 0.0, text 'Hi!' and end >= 0.2 s + buffer, and that cue is
\* the one the end-of-stream (final-segment) duration rule produces.
C21_ScenarioAFinalBonus ==
    (IsEL /\ pc = "done" /\ char_timings = ScenarioA) =>
        /\ NumCues = 1
        /\ subtitle_entries[1].start = RInt(0)
        /\ subtitle_entries[1].text = <<"H", "i", "!">>
        /\ RLe(RInt(20 + FinalBuffer(1)), subtitle_entries[1].end)
        /\ flushed_final
        /\ subtitle_entries[1]
             = FinalCue(<<"H", "i", "!">>, 0, 40 + PerCharBuffer)

\* parse has returned the cues of a scenario C payload
C22_Done ==
    /\ IsW /\ pc = "done"
    /\ segments \in ScenarioCPayloads
    /\ max_chars = ScenarioCMaxChars

\* the 0-based index of the last space among the first 40 characters, or -1
C22_SpaceIndex(t) ==
    LET found == {j \in 0..(ScenarioCMaxChars - 1) : t[j + 1] = " "}
    IN  IF found = {} THEN 0 - 1
        ELSE CHOOSE j \in found : \A m \in found : m <= j

\* exactly two cues that share the 10 s in proportion to their character
\* counts, the first one ending 0.1 s before the second one starts
C22_TwoProportional ==
    /\ NumCues = 2
    /\ LET n1 == Len(subtitle_entries[1].text)
           n2 == Len(subtitle_entries[2].text)
           share1 == Rat(ScenarioCEnd * n1, n1 + n2)
       IN  /\ subtitle_entries[1].start = RInt(0)
           /\ subtitle_entries[2].start = share1
           /\ subtitle_entries[2].end = RInt(ScenarioCEnd)
           /\ subtitle_entries[1].end = RSub(share1, RInt(10))
           /\ RLt(RSub(subtitle_entries[1].end, RInt(10)),
                  subtitle_entries[2].start)

\* C22 as stated: scenario C, any 70 characters without punctuation split at
\* 40, yields exactly 2 sub-chunks with durations proportional to their
\* character counts, the second starting after the first's end minus 0.1 s.
C22_ScenarioCAsStated == C22_Done => C22_TwoProportional

\* C22, amended: the same outcome when the first 40 characters hold no space
\* or their last space has index 30 or more; otherwise the text is split at
\* that earlier space and there are at least 3 sub-chunks.
C22_ScenarioCTwoOrMore ==
    C22_Done =>
        LET last_space == C22_SpaceIndex(segments[1].text)
            first_len == IF last_space = 0 - 1 THEN ScenarioCMaxChars
                         ELSE last_space
        IN  /\ NumCues >= 2
            /\ subtitle_entries[1].text
                 = Strip(SubSeq(segments[1].text, 1, first_len))
            /\ IF last_space = 0 - 1 \/ last_space >= 30
               THEN C22_TwoProportional
               ELSE NumCues >= 3

\* two sub-chunks of a text with a space, split at that space
C22_Witness ==
    /\ C22_Done
    /\ NumCues = 2
    /\ C22_SpaceIndex(segments[1].text) >= 30
    /\ Len(subtitle_entries[1].text) + Len(subtitle_entries[2].text)
         < ScenarioCLen

\* C23: process_csv writes exactly one output row for every input row, in
\* input order; a row whose API call failed, with any exception, is written
\* with output_mp3_path 'ERROR', and the rows after it are still processed.
C23_OneRowPerInputRow ==
    csv_pc \in {"done", "failed"} =>
        /\ Len(out_rows) = Len(rows)
        /\ \A k \in 1..Len(out_rows) :
              /\ out_rows[k].row = k
              /\ rows[k] # "ok" => out_rows[k].output_mp3_path = "ERROR"

\* C24: get_posts makes at most retries + 1 attempts and none after the
\* first successful one, quits the web driver exactly once per attempt, also
\* when the attempt raises, and returns an empty dict when every attempt
\* fails.
C24_RetryContract ==
    /\ Len(attempts) <= retries + 1
    /\ \A k \in 1..(Len(attempts) - 1) : ~Succeeded(attempts[k])
    /\ rc_pc \in {"loop", "done"} =>
          quit_count = Cardinality({k \in 1..Len(attempts) :
                                       attempts[k].driver})
    /\ (/\ rc_pc \in {"done", "raised"}
        /\ \A k \in 1..Len(attempts) : ~Succeeded(attempts[k]))
       => rc_pc = "done" /\ posts = 0

\* C25: retry_failed_video on a story stored as VIDEO_ERROR or
\* VIDEO_PROCESSING resets it to READY and runs the video creation, so the
\* call ends with the story VIDEO_READY or VIDEO_ERROR, never left READY with
\* no creation attempted.
C25_RetryRunsCreation ==
    (/\ vm_pc = "done" /\ retry_id \in StoryIds
     /\ batch # <<>> /\ batch[1].status \in RetryStatuses)
    => stories[retry_id].status \in {"VIDEO_READY", "VIDEO_ERROR"}

\* the Story object create_video_for_story is called with
C26_Story == batch[story_idx + 1]

\* the call is rejected before its try block
C26_Rejected ==
    \/ C26_Story.status \notin {"READY", "AUDIO_GENERATED"}
    \/ ~C26_Story.has_files

C27_SubChunks ==
    SubSeq(subtitle_entries', NumCues + 1, Len(subtitle_entries'))

C28_ChunkingTerminates ==
    (IsW /\ pc = "w_chunk") =>
        /\ max_chars >= 1
        /\ iterations <= current_pos
        /\ current_pos <= Len(text)
        /\ iterations <= Len(text)
        /\ current_pos < Len(text) =>
              LET split_point ==
                      find_best_split_point(RemainingText, max_chars)
              IN  split_point >= 1 /\ split_point <= Len(RemainingText)

\* the loop has ended after as many iterations as the text has characters
C28_Witness ==
    /\ IsW /\ pc = "w_chunk"
    /\ current_pos = Len(text) /\ iterations = Len(text)
    /\ Len(text) >= 3 /\ Len(chunks) < iterations


\* C29: when a VideoPipeline with-block exits, close() is called on every
\* clip of the registry, also when some of the calls raise; the registry is
\* empty and the pipeline is marked cleaned afterwards; and if the block
\* raised, its exception, not the cleanup error, leaves the with statement.
C29_ExitStep ==
    (vp_pc = "in" /\ vp_pc' = "out") =>
        /\ Clips(active_clips) \subseteq close_called'
        /\ active_clips' = NoClips
        /\ cleaned'
        /\ block_exc # "none" => propagated' = block_exc

C30_NoClipLeftOpen ==
    ((vp_pc = "out" /\ initialized) \/ vp_pc = "ended") =>
        registered \subseteq close_called

====
